---- MODULE Spec2Model ----
(***************************************************************************)
(* Model of the TeamCity REST client, pkg/buildserver/teamcity/teamcity.go *)
(*                                                                         *)
(* Strings are TLA+ strings (TLC evaluates \o, Len and SubSeq on them).    *)
(* Every operation of TCClient is one blocking call.  A call is modelled   *)
(* in two steps, split at its only suspension point, client.Do: the step   *)
(* that builds the request and hands it to the transport, and the step in  *)
(* which the transport answers and the handler runs to its return.         *)
(***************************************************************************)
EXTENDS Integers, Sequences, FiniteSets, TLC

VARIABLES
    ctor,      \* the arguments NewTeamcityClient was called with (serverURL, raw token)
    clients,   \* the TCClient objects: client id -> [serverURL, token, client]
    calls      \* caller -> the call it is executing

vars == <<ctor, clients, calls>>

(***************************************************************************)
(* Bounds and input sets                                                   *)
(***************************************************************************)
MaxId == 1

Callers == {"g1", "g2"}
ClientIds == {"raw", "prefixed"}
Ids == -1..MaxId
RawTokens == {"abc123", "bearer abc123", "Bearer abc123"}
ServerURLs == {"https://tc.example", "https://tc\t.example"}
Comments == {"no longer needed"}
Paths == {"logs/out.txt"}
Statuses == {200, 500}
RespIds == {-1, 42}

\* Go maps with keys among K and values among V
Maps(K, V) == UNION {[D -> V] : D \in SUBSET K}
EmptyMap == [k \in {} |-> 0]

\* TCQueryParams values
QueryParams(bt, branch, user, count, start, limit, running, cancelled) ==
    [BuildTypeID |-> bt, Branch |-> branch, User |-> user, Count |-> count,
     Start |-> start, LookupLimit |-> limit, Running |-> running, Cancelled |-> cancelled]

AllQueryParams ==
    { QueryParams(bt, br, u, c, st, l, r, x) :
        bt \in {"", "bt1"}, br \in {"", "main"}, u \in {"", "alice"},
        c \in {-1, 0, 5}, st \in {-1, 0, 2}, l \in {0, 3},
        r \in BOOLEAN, x \in BOOLEAN }

FewQueryParams ==
    { QueryParams("", "", "", 0, 0, 0, FALSE, FALSE),
      QueryParams("bt1", "", "", 5, 0, 0, FALSE, FALSE) }

\* StartBuild's three maps
StartMaps(params, snap, artf) ==
    [params |-> params, snapshotDependencies |-> snap, artifactDependencies |-> artf]

AllStartMaps ==
    { StartMaps(pm, sd, ad) :
        pm \in Maps({"KEY", "K2"}, {"VALUE"}),
        sd \in Maps({"BuildTypeA", "BuildTypeB"}, {42, 7}),
        ad \in Maps({"BuildTypeA", "BuildTypeB"}, {42, 7}) }

FewStartMaps ==
    { StartMaps(EmptyMap, EmptyMap, EmptyMap),
      StartMaps("KEY" :> "VALUE", "BuildTypeA" :> 42, EmptyMap),
      StartMaps(EmptyMap, EmptyMap, "BuildTypeB" :> 7) }

Nil == "<nil>"

(***************************************************************************)
(* Library functions the code calls                                        *)
(***************************************************************************)
HasPrefix(s, prefix) ==
    /\ Len(s) >= Len(prefix)
    /\ SubSeq(s, 1, Len(prefix)) = prefix

\* strings.TrimPrefix: removes ONE leading occurrence of prefix, if there is one
TrimPrefix(s, prefix) ==
    IF HasPrefix(s, prefix) THEN SubSeq(s, Len(prefix) + 1, Len(s)) ELSE s

Contains(s, sub) ==
    \E i \in 1..(Len(s) - Len(sub) + 1) : SubSeq(s, i, i + Len(sub) - 1) = sub

\* fmt verbs %d and %t
FmtD(n) == ToString(n)
FmtT(b) == IF b THEN "true" ELSE "false"

\* http.NewRequest fails when url.Parse rejects the URL; a control byte
\* anywhere in the string is such a URL ("invalid control character in URL")
NewRequestFails(url) == Contains(url, "\t")

\* http.Header.Add: appends the value to the values of the key
HeaderAdd(h, k, v) ==
    IF k \in DOMAIN h THEN [h EXCEPT ![k] = Append(@, v)] ELSE h @@ (k :> <<v>>)

EmptyHeader == [k \in {} |-> <<>>]

(***************************************************************************)
(* NewTeamcityClient                                                       *)
(***************************************************************************)
\* mutant: the token is stored as given, prefix and all
NewTeamcityClient_KeepsPrefix(requestTimeout, dialTimeout, tlsHandshakeTimeout, serverURL, token, insecure) ==
    [ client    |-> [ Timeout |-> requestTimeout,
                      Transport |-> [ DialTimeout |-> dialTimeout,
                                      TLSHandshakeTimeout |-> tlsHandshakeTimeout,
                                      InsecureSkipVerify |-> insecure ] ],
      serverURL |-> serverURL,
      token     |-> token ]

NewTeamcityClient(requestTimeout, dialTimeout, tlsHandshakeTimeout, serverURL, token, insecure) ==
    [ client    |-> [ Timeout |-> requestTimeout,
                      Transport |-> [ DialTimeout |-> dialTimeout,
                                      TLSHandshakeTimeout |-> tlsHandshakeTimeout,
                                      InsecureSkipVerify |-> insecure ] ],
      serverURL |-> serverURL,
      token     |-> TrimPrefix(token, "Bearer ") ]

\* the token argument each of the two clients is constructed with
TokenArg(c, t) == IF c = "prefixed" THEN "Bearer " \o t ELSE t

Construct(c, url, t) ==
    NewTeamcityClient(30, 5, 5, url, TokenArg(c, t), FALSE)

(***************************************************************************)
(* Requests                                                                *)
(***************************************************************************)
NoBody == [present |-> FALSE]
JsonBody(doc) == [present |-> TRUE, json |-> doc]

NoReq == [method |-> "", url |-> "", header |-> EmptyHeader, body |-> NoBody]

\* mutant: the header value is cached in the receiver's token field
setAuthorizationHeader_Caches(t, headers) ==
    [ t       |-> [t EXCEPT !.token = "Bearer " \o t.token],
      headers |-> HeaderAdd(headers, "Authorization", "Bearer " \o t.token) ]

\* func (t *TCClient) setAuthorizationHeader(headers http.Header): the receiver
\* after the call, and the headers after the call
setAuthorizationHeader(t, headers) ==
    [ t       |-> t,
      headers |-> HeaderAdd(headers, "Authorization", "Bearer " \o t.token) ]

\* http.NewRequest(method, url, body): err, or a request with an empty header
NewRequest(method, url, body) ==
    IF NewRequestFails(url)
    THEN [err |-> "newrequest", req |-> NoReq]
    ELSE [err |-> Nil,
          req |-> [method |-> method, url |-> url, header |-> EmptyHeader, body |-> body]]

\* what an operation has done when it reaches client.Do (or returns before it):
\* the receiver, the error, the request and the stages run so far
Built(t, err, req, stages) == [t |-> t, err |-> err, req |-> req, stages |-> stages]
Stage(name, ok) == [stage |-> name, ok |-> ok]

\* GetBuild up to client.Do
GetBuildRequest(t, id) ==
    LET nr == NewRequest("GET", t.serverURL \o "/app/rest/builds/id:" \o FmtD(id), NoBody)
        a  == setAuthorizationHeader(t, nr.req.header)
        h  == HeaderAdd(HeaderAdd(a.headers, "Accept", "application/json"),
                        "Content-Type", "application/json")
    IN  IF nr.err # Nil
        THEN Built(t, nr.err, NoReq, <<Stage("newrequest", FALSE)>>)
        ELSE Built(a.t, Nil, [nr.req EXCEPT !.header = h], <<Stage("newrequest", TRUE)>>)

(***************************************************************************)
(* StartBuild: the payload                                                 *)
(* A Go map is a function from its keys; ranging over it visits the keys   *)
(* in an order the runtime picks, given here as a sequence of the keys.    *)
(***************************************************************************)
Orders(m) ==
    { o \in [1..Cardinality(DOMAIN m) -> DOMAIN m] :
        \A i, j \in DOMAIN o : i # j => o[i] # o[j] }

NilPtr == [nil |-> TRUE]
PtrTo(v) == [nil |-> FALSE, v |-> v]

\* mutant: the slice is made with len(params) zero entries before the appends
RangeProperties_Prealloc(params, order) ==
    [i \in 1..Len(order) |-> [Name |-> "", Value |-> ""]]
    \o [i \in 1..Len(order) |-> [Name |-> order[i], Value |-> params[order[i]]]]

\* for k, v := range params { append(..., TCBuildProperty{k, v}) }
RangeProperties(params, order) ==
    [i \in 1..Len(order) |-> [Name |-> order[i], Value |-> params[order[i]]]]

\* for k, v := range deps { append(..., TCBuildDetails{ID: v, BuildTypeID: k}) }
RangeBuilds(deps, order) ==
    [Builds |-> [i \in 1..Len(order) |-> [ID |-> deps[order[i]], BuildTypeID |-> order[i]]]]

\* mutant: the block is attached whether or not it holds a build
DependenciesField_Always(deps) == PtrTo(deps)

\* if len(deps.Builds) > 0 { payload.XDependencies = &deps }
DependenciesField(deps) ==
    IF Len(deps.Builds) > 0 THEN PtrTo(deps) ELSE NilPtr

StartBuildPayload(buildTypeID, branch, comment, params, pOrder, snapshotDependencies, sOrder, artifactDependencies, aOrder) ==
    LET snapDeps == RangeBuilds(snapshotDependencies, sOrder)
        artfDeps == RangeBuilds(artifactDependencies, aOrder)
    IN  [ BuildType            |-> [ID |-> buildTypeID],
          Comment              |-> [Text |-> comment],
          Properties           |-> [Property |-> RangeProperties(params, pOrder)],
          Personal             |-> "False",
          BranchName           |-> branch,
          SnapshotDependencies |-> DependenciesField(snapDeps),
          ArtifactDependencies |-> DependenciesField(artfDeps) ]

\* json.Marshal of a build reference, a dependency block and the payload.  The
\* struct definitions (field tags) are not part of the source file; the field
\* names are those of the server's schema and a nil block is left out.
MarshalBuilds(builds) ==
    [i \in 1..Len(builds) |-> [id |-> builds[i].ID, buildTypeId |-> builds[i].BuildTypeID]]

MarshalPayload(payload) ==
    LET props == payload.Properties.Property
        base  == [ buildType  |-> [id |-> payload.BuildType.ID],
                   comment    |-> [text |-> payload.Comment.Text],
                   properties |-> [property |->
                       [i \in 1..Len(props) |-> [name |-> props[i].Name, value |-> props[i].Value]]],
                   personal   |-> payload.Personal,
                   branchName |-> payload.BranchName ]
        snap  == IF payload.SnapshotDependencies.nil THEN EmptyHeader
                 ELSE "snapshot-dependencies" :>
                        [build |-> MarshalBuilds(payload.SnapshotDependencies.v.Builds)]
        artf  == IF payload.ArtifactDependencies.nil THEN EmptyHeader
                 ELSE "artifact-dependencies" :>
                        [build |-> MarshalBuilds(payload.ArtifactDependencies.v.Builds)]
    IN  base @@ snap @@ artf

\* CancelQueuedBuild and StopBuild: TCBuildStopPayload{Comment, ReaddIntoQueue: "false"}
StopPayload(comment) == [Comment |-> comment, ReaddIntoQueue |-> "false"]

MarshalStopPayload(payload) ==
    [comment |-> payload.Comment, readdIntoQueue |-> payload.ReaddIntoQueue]

(***************************************************************************)
(* The other operations up to client.Do                                    *)
(***************************************************************************)
StartBuildRequest(t, payload) ==
    LET requestPayload == MarshalPayload(payload)
        nr == NewRequest("POST", t.serverURL \o "/app/rest/buildQueue",
                         JsonBody(requestPayload))
        a  == setAuthorizationHeader(t, nr.req.header)
        h  == HeaderAdd(HeaderAdd(a.headers, "Accept", "application/json"),
                        "Content-Type", "application/json")
    IN  IF nr.err # Nil
        THEN Built(t, nr.err, NoReq, <<Stage("marshal", TRUE), Stage("newrequest", FALSE)>>)
        ELSE Built(a.t, Nil, [nr.req EXCEPT !.header = h],
                   <<Stage("marshal", TRUE), Stage("newrequest", TRUE)>>)

CancelQueuedBuildRequest(t, id, comment) ==
    LET requestPayload == MarshalStopPayload(StopPayload(comment))
        nr == NewRequest("POST", t.serverURL \o "/app/rest/buildQueue/" \o FmtD(id),
                         JsonBody(requestPayload))
        a  == setAuthorizationHeader(t, nr.req.header)
        h  == HeaderAdd(HeaderAdd(a.headers, "Accept", "application/json"),
                        "Content-Type", "application/json")
    IN  IF nr.err # Nil
        THEN Built(t, nr.err, NoReq, <<Stage("marshal", TRUE), Stage("newrequest", FALSE)>>)
        ELSE Built(a.t, Nil, [nr.req EXCEPT !.header = h],
                   <<Stage("marshal", TRUE), Stage("newrequest", TRUE)>>)

\* mutant: StopBuild posts to the queue endpoint, as CancelQueuedBuild does
StopBuildRequest_Queue(t, id, comment) ==
    LET requestPayload == MarshalStopPayload(StopPayload(comment))
        nr == NewRequest("POST", t.serverURL \o "/app/rest/buildQueue/" \o FmtD(id),
                         JsonBody(requestPayload))
        a  == setAuthorizationHeader(t, nr.req.header)
        h  == HeaderAdd(HeaderAdd(a.headers, "Accept", "application/json"),
                        "Content-Type", "application/json")
    IN  IF nr.err # Nil
        THEN Built(t, nr.err, NoReq, <<Stage("marshal", TRUE), Stage("newrequest", FALSE)>>)
        ELSE Built(a.t, Nil, [nr.req EXCEPT !.header = h],
                   <<Stage("marshal", TRUE), Stage("newrequest", TRUE)>>)

StopBuildRequest(t, id, comment) ==
    LET requestPayload == MarshalStopPayload(StopPayload(comment))
        nr == NewRequest("POST", t.serverURL \o "/app/rest/builds/" \o FmtD(id),
                         JsonBody(requestPayload))
        a  == setAuthorizationHeader(t, nr.req.header)
        h  == HeaderAdd(HeaderAdd(a.headers, "Accept", "application/json"),
                        "Content-Type", "application/json")
    IN  IF nr.err # Nil
        THEN Built(t, nr.err, NoReq, <<Stage("marshal", TRUE), Stage("newrequest", FALSE)>>)
        ELSE Built(a.t, Nil, [nr.req EXCEPT !.header = h],
                   <<Stage("marshal", TRUE), Stage("newrequest", TRUE)>>)

GetArtifactTextFileRequest(t, path, id) ==
    LET nr == NewRequest("GET", t.serverURL \o "/app/rest/builds/id:" \o FmtD(id)
                                  \o "/artifacts/content/" \o path, NoBody)
        a  == setAuthorizationHeader(t, nr.req.header)
        h  == HeaderAdd(HeaderAdd(a.headers, "Accept", "application/json"),
                        "Content-Type", "application/json")
    IN  IF nr.err # Nil
        THEN Built(t, nr.err, NoReq, <<Stage("newrequest", FALSE)>>)
        ELSE Built(a.t, Nil, [nr.req EXCEPT !.header = h], <<Stage("newrequest", TRUE)>>)

\* mutant: the numeric filters are tested for non-zero instead of positive
GetAllBuildsURL_NonZero(t, params) ==
    LET u0 == t.serverURL \o "/app/rest/builds/?locator="
        u1 == IF params.BuildTypeID # ""
              THEN u0 \o ("buildType:(id:" \o params.BuildTypeID \o "),") ELSE u0
        u2 == IF params.Branch # ""
              THEN u1 \o ("branch:(name:" \o params.Branch \o "),") ELSE u1
        u3 == IF params.User # ""
              THEN u2 \o ("user:" \o params.User \o ",") ELSE u2
        u4 == IF params.Count # 0
              THEN u3 \o ("count:" \o FmtD(params.Count) \o ",") ELSE u3
        u5 == IF params.Start # 0
              THEN u4 \o ("start:" \o FmtD(params.Start) \o ",") ELSE u4
        u6 == IF params.LookupLimit # 0
              THEN u5 \o ("lookupLimit:" \o FmtD(params.LookupLimit) \o ",") ELSE u5
        u7 == IF params.Running
              THEN u6 \o ("running:" \o FmtT(params.Running) \o ",") ELSE u6
        u8 == IF params.Cancelled
              THEN u7 \o ("cancelled:" \o FmtT(params.Cancelled) \o ",") ELSE u7
    IN  u8

\* GetAllBuilds: the request URL, grown one fragment at a time
GetAllBuildsURL(t, params) ==
    LET u0 == t.serverURL \o "/app/rest/builds/?locator="
        u1 == IF params.BuildTypeID # ""
              THEN u0 \o ("buildType:(id:" \o params.BuildTypeID \o "),") ELSE u0
        u2 == IF params.Branch # ""
              THEN u1 \o ("branch:(name:" \o params.Branch \o "),") ELSE u1
        u3 == IF params.User # ""
              THEN u2 \o ("user:" \o params.User \o ",") ELSE u2
        u4 == IF params.Count > 0
              THEN u3 \o ("count:" \o FmtD(params.Count) \o ",") ELSE u3
        u5 == IF params.Start > 0
              THEN u4 \o ("start:" \o FmtD(params.Start) \o ",") ELSE u4
        u6 == IF params.LookupLimit > 0
              THEN u5 \o ("lookupLimit:" \o FmtD(params.LookupLimit) \o ",") ELSE u5
        u7 == IF params.Running
              THEN u6 \o ("running:" \o FmtT(params.Running) \o ",") ELSE u6
        u8 == IF params.Cancelled
              THEN u7 \o ("cancelled:" \o FmtT(params.Cancelled) \o ",") ELSE u7
    IN  u8

\* mutant: the Content-Type line is missing
GetAllBuildsRequest_NoContentType(t, params) ==
    LET nr == NewRequest("GET", GetAllBuildsURL(t, params), NoBody)
        a  == setAuthorizationHeader(t, nr.req.header)
        h  == HeaderAdd(a.headers, "Accept", "application/json")
    IN  IF nr.err # Nil
        THEN Built(t, nr.err, NoReq, <<Stage("newrequest", FALSE)>>)
        ELSE Built(a.t, Nil, [nr.req EXCEPT !.header = h], <<Stage("newrequest", TRUE)>>)

GetAllBuildsRequest(t, params) ==
    LET nr == NewRequest("GET", GetAllBuildsURL(t, params), NoBody)
        a  == setAuthorizationHeader(t, nr.req.header)
        h  == HeaderAdd(HeaderAdd(a.headers, "Accept", "application/json"),
                        "Content-Type", "application/json")
    IN  IF nr.err # Nil
        THEN Built(t, nr.err, NoReq, <<Stage("newrequest", FALSE)>>)
        ELSE Built(a.t, Nil, [nr.req EXCEPT !.header = h], <<Stage("newrequest", TRUE)>>)

(***************************************************************************)
(* The transport's answer and the rest of each operation                   *)
(***************************************************************************)
\* a response body: its bytes and what encoding/json makes of them (whether
\* they decode into the destination, and the decoded fields)
Body(raw, valid, id, builds) == [raw |-> raw, valid |-> valid, ID |-> id, Builds |-> builds]

Bodies ==
    {Body("<html>error</html>", FALSE, 0, <<>>)} \cup
    {Body("{\"id\":" \o FmtD(n) \o ",\"build\":[{\"id\":" \o FmtD(n) \o "}]}",
          TRUE, n, <<[ID |-> n]>>) : n \in RespIds}

\* what client.Do and ioutil.ReadAll give: a transport error (DNS, connect,
\* TLS, timeout), or a response whose body can or cannot be read
TransportError ==
    [transportOK |-> FALSE, status |-> 0, ctype |-> "", readOK |-> FALSE,
     body |-> Body("", FALSE, 0, <<>>)]

Outcomes ==
    {TransportError} \cup
    {[transportOK |-> TRUE, status |-> s, ctype |-> "text/plain", readOK |-> FALSE,
      body |-> Body("", FALSE, 0, <<>>)] : s \in Statuses} \cup
    {[transportOK |-> TRUE, status |-> s, ctype |-> "text/plain", readOK |-> TRUE,
      body |-> b] : s \in Statuses, b \in Bodies}

\* json.Unmarshal(body, &dest) for a TCBuildDetails destination
UnmarshalDetails(body, dest) ==
    IF body.valid THEN [err |-> Nil, v |-> [ID |-> body.ID]]
    ELSE [err |-> "decode", v |-> dest]

\* json.Unmarshal(body, &builds) for the list-of-builds container
UnmarshalBuilds(body, dest) ==
    IF body.valid THEN [err |-> Nil, v |-> [Builds |-> body.Builds]]
    ELSE [err |-> "decode", v |-> dest]

\* what an operation has done when it returns: its results and the stages it
\* ran after the request was handed to the transport
Done(result, stages) == [result |-> result, stages |-> stages]

ZeroDetails == [ID |-> 0]
ZeroBuilds == [Builds |-> <<>>]

\* mutant: a transport error is answered with a second client.Do
GetBuildFinish_Retries(out, buildDetails) ==
    IF ~out.transportOK
    THEN Done([err |-> "transport", buildDetails |-> buildDetails],
              <<Stage("do", FALSE), Stage("do", FALSE)>>)
    ELSE IF ~out.readOK
    THEN Done([err |-> "read", buildDetails |-> buildDetails],
              <<Stage("do", TRUE), Stage("read", FALSE)>>)
    ELSE LET u == UnmarshalDetails(out.body, buildDetails)
         IN  Done([err |-> u.err, buildDetails |-> u.v],
                  <<Stage("do", TRUE), Stage("read", TRUE), Stage("decode", u.err = Nil)>>)

\* GetBuild from client.Do on
GetBuildFinish(out, buildDetails) ==
    IF ~out.transportOK
    THEN Done([err |-> "transport", buildDetails |-> buildDetails], <<Stage("do", FALSE)>>)
    ELSE IF ~out.readOK
    THEN Done([err |-> "read", buildDetails |-> buildDetails],
              <<Stage("do", TRUE), Stage("read", FALSE)>>)
    ELSE LET u == UnmarshalDetails(out.body, buildDetails)
         IN  Done([err |-> u.err, buildDetails |-> u.v],
                  <<Stage("do", TRUE), Stage("read", TRUE), Stage("decode", u.err = Nil)>>)

\* mutant: a decode failure returns buildDetails.ID beside the error
StartBuildFinish_ZeroID(out) ==
    IF ~out.transportOK
    THEN Done([id |-> -1, err |-> "transport"], <<Stage("do", FALSE)>>)
    ELSE IF ~out.readOK
    THEN Done([id |-> -1, err |-> "read"], <<Stage("do", TRUE), Stage("read", FALSE)>>)
    ELSE LET u == UnmarshalDetails(out.body, ZeroDetails)
         IN  Done([id |-> u.v.ID, err |-> u.err],
                  <<Stage("do", TRUE), Stage("read", TRUE), Stage("decode", u.err = Nil)>>)

\* StartBuild from client.Do on
StartBuildFinish(out) ==
    IF ~out.transportOK
    THEN Done([id |-> -1, err |-> "transport"], <<Stage("do", FALSE)>>)
    ELSE IF ~out.readOK
    THEN Done([id |-> -1, err |-> "read"], <<Stage("do", TRUE), Stage("read", FALSE)>>)
    ELSE LET u == UnmarshalDetails(out.body, ZeroDetails)
         IN  IF u.err # Nil
             THEN Done([id |-> -1, err |-> u.err],
                       <<Stage("do", TRUE), Stage("read", TRUE), Stage("decode", FALSE)>>)
             ELSE Done([id |-> u.v.ID, err |-> Nil],
                       <<Stage("do", TRUE), Stage("read", TRUE), Stage("decode", TRUE)>>)

\* mutant: the response body is decoded, as in the code left in the comment
CancelQueuedBuildFinish_Decodes(out) ==
    IF ~out.transportOK
    THEN Done([err |-> "transport"], <<Stage("do", FALSE)>>)
    ELSE IF ~out.readOK
    THEN Done([err |-> "read"], <<Stage("do", TRUE), Stage("read", FALSE)>>)
    ELSE LET u == UnmarshalDetails(out.body, ZeroDetails)
         IN  Done([err |-> u.err],
                  <<Stage("do", TRUE), Stage("read", TRUE), Stage("decode", u.err = Nil)>>)

\* CancelQueuedBuild from client.Do on
CancelQueuedBuildFinish(out) ==
    IF ~out.transportOK
    THEN Done([err |-> "transport"], <<Stage("do", FALSE)>>)
    ELSE IF ~out.readOK
    THEN Done([err |-> "read"], <<Stage("do", TRUE), Stage("read", FALSE)>>)
    ELSE Done([err |-> Nil], <<Stage("do", TRUE), Stage("read", TRUE)>>)

\* StopBuild from client.Do on
StopBuildFinish(out) ==
    IF ~out.transportOK
    THEN Done([err |-> "transport"], <<Stage("do", FALSE)>>)
    ELSE IF ~out.readOK
    THEN Done([err |-> "read"], <<Stage("do", TRUE), Stage("read", FALSE)>>)
    ELSE Done([err |-> Nil], <<Stage("do", TRUE), Stage("read", TRUE)>>)

\* GetArtifactTextFile from client.Do on
GetArtifactTextFileFinish(out) ==
    IF ~out.transportOK
    THEN Done([fileContent |-> "", contentType |-> "", err |-> "transport"],
              <<Stage("do", FALSE)>>)
    ELSE IF ~out.readOK
    THEN Done([fileContent |-> out.body.raw, contentType |-> "", err |-> "read"],
              <<Stage("do", TRUE), Stage("read", FALSE)>>)
    ELSE Done([fileContent |-> out.body.raw, contentType |-> out.ctype, err |-> Nil],
              <<Stage("do", TRUE), Stage("read", TRUE)>>)

\* GetAllBuilds from client.Do on
GetAllBuildsFinish(out) ==
    IF ~out.transportOK
    THEN Done([builds |-> ZeroBuilds, err |-> "transport"], <<Stage("do", FALSE)>>)
    ELSE IF ~out.readOK
    THEN Done([builds |-> ZeroBuilds, err |-> "read"],
              <<Stage("do", TRUE), Stage("read", FALSE)>>)
    ELSE LET u == UnmarshalBuilds(out.body, ZeroBuilds)
         IN  Done([builds |-> u.v, err |-> u.err],
                  <<Stage("do", TRUE), Stage("read", TRUE), Stage("decode", u.err = Nil)>>)

\* the results an operation returns when http.NewRequest fails
EarlyResult(op, err, args) ==
    CASE op = "GetBuild"            -> [err |-> err, buildDetails |-> args.buildDetails]
      [] op = "StartBuild"          -> [id |-> -1, err |-> err]
      [] op = "CancelQueuedBuild"   -> [err |-> err]
      [] op = "StopBuild"           -> [err |-> err]
      [] op = "GetArtifactTextFile" -> [fileContent |-> "", contentType |-> "", err |-> err]
      [] op = "GetAllBuilds"        -> [builds |-> ZeroBuilds, err |-> err]

Finish(op, args, out) ==
    CASE op = "GetBuild"            -> GetBuildFinish(out, args.buildDetails)
      [] op = "StartBuild"          -> StartBuildFinish(out)
      [] op = "CancelQueuedBuild"   -> CancelQueuedBuildFinish(out)
      [] op = "StopBuild"           -> StopBuildFinish(out)
      [] op = "GetArtifactTextFile" -> GetArtifactTextFileFinish(out)
      [] op = "GetAllBuilds"        -> GetAllBuildsFinish(out)

(***************************************************************************)
(* The state machine                                                       *)
(***************************************************************************)
IdleCall ==
    [pc |-> "idle", op |-> "none", cl |-> "none", args |-> <<>>, req |-> NoReq,
     sent |-> FALSE, stages |-> <<>>, outs |-> <<>>, result |-> <<>>]

\* both clients are constructed on the same server URL, one with the token t
\* and one with "Bearer " + t
InitWith(urls, tokens) ==
    \E url \in urls, t \in tokens :
        /\ ctor = [serverURL |-> url, token |-> t]
        /\ clients = [c \in ClientIds |-> Construct(c, url, t)]
        /\ calls = [p \in Callers |-> IdleCall]

\* caller p enters operation op on client c: b is what the operation has done
\* when it blocks in client.Do, or returns because http.NewRequest failed
Enter(p, c, op, args, b) ==
    /\ clients' = [clients EXCEPT ![c] = b.t]
    /\ calls' = [calls EXCEPT ![p] =
          IF b.err # Nil
          THEN [pc |-> "returned", op |-> op, cl |-> c, args |-> args, req |-> b.req,
                sent |-> FALSE, stages |-> b.stages, outs |-> <<>>,
                result |-> EarlyResult(op, b.err, args)]
          ELSE [pc |-> "waiting", op |-> op, cl |-> c, args |-> args, req |-> b.req,
                sent |-> TRUE, stages |-> b.stages, outs |-> <<>>, result |-> <<>>]]
    /\ UNCHANGED ctor

GetBuild(p, c, id) ==
    /\ calls[p].pc = "idle"
    /\ Enter(p, c, "GetBuild", [id |-> id, buildDetails |-> ZeroDetails],
             GetBuildRequest(clients[c], id))

StartBuild(p, c, buildTypeID, branch, comment, m) ==
    /\ calls[p].pc = "idle"
    /\ \E pOrder \in Orders(m.params),
       sOrder \in Orders(m.snapshotDependencies),
       aOrder \in Orders(m.artifactDependencies) :
        LET payload == StartBuildPayload(buildTypeID, branch, comment, m.params, pOrder,
                                         m.snapshotDependencies, sOrder,
                                         m.artifactDependencies, aOrder)
        IN  Enter(p, c, "StartBuild",
                  [buildTypeID |-> buildTypeID, branch |-> branch, comment |-> comment,
                   params |-> m.params, snapshotDependencies |-> m.snapshotDependencies,
                   artifactDependencies |-> m.artifactDependencies,
                   pOrder |-> pOrder, sOrder |-> sOrder, aOrder |-> aOrder],
                  StartBuildRequest(clients[c], payload))

CancelQueuedBuild(p, c, id, comment) ==
    /\ calls[p].pc = "idle"
    /\ Enter(p, c, "CancelQueuedBuild", [id |-> id, comment |-> comment],
          CancelQueuedBuildRequest(clients[c], id, comment))

StopBuild(p, c, id, comment) ==
    /\ calls[p].pc = "idle"
    /\ Enter(p, c, "StopBuild", [id |-> id, comment |-> comment],
          StopBuildRequest(clients[c], id, comment))

GetArtifactTextFile(p, c, path, id) ==
    /\ calls[p].pc = "idle"
    /\ Enter(p, c, "GetArtifactTextFile", [path |-> path, id |-> id],
          GetArtifactTextFileRequest(clients[c], path, id))

GetAllBuilds(p, c, params) ==
    /\ calls[p].pc = "idle"
    /\ Enter(p, c, "GetAllBuilds", [params |-> params],
          GetAllBuildsRequest(clients[c], params))

\* client.Do returns to caller p and the operation runs to its return
DoReturns(p) ==
    /\ calls[p].pc = "waiting"
    /\ \E out \in Outcomes :
         LET d == Finish(calls[p].op, calls[p].args, out)
         IN  calls' = [calls EXCEPT ![p] =
                 [@ EXCEPT !.pc = "returned", !.stages = @ \o d.stages,
                           !.outs = Append(@, out), !.result = d.result]]
    /\ UNCHANGED <<ctor, clients>>

Init == InitWith(ServerURLs, RawTokens)

\* the steps of caller p, with StartBuild's maps drawn from maps and
\* GetAllBuilds' filters from queries
CallerStep(p, maps, queries) ==
    \/ \E c \in ClientIds, id \in Ids : GetBuild(p, c, id)
    \/ \E c \in ClientIds, m \in maps : StartBuild(p, c, "bt1", "main", "nightly", m)
    \/ \E c \in ClientIds, id \in Ids, comment \in Comments :
          CancelQueuedBuild(p, c, id, comment)
    \/ \E c \in ClientIds, id \in Ids, comment \in Comments :
          StopBuild(p, c, id, comment)
    \/ \E c \in ClientIds, path \in Paths, id \in Ids :
          GetArtifactTextFile(p, c, path, id)
    \/ \E c \in ClientIds, params \in queries : GetAllBuilds(p, c, params)
    \/ DoReturns(p)

\* concurrent callers on the two clients
Next == \E p \in Callers : CallerStep(p, FewStartMaps, FewQueryParams)

Spec == Init /\ [][Next]_vars

\* one caller; the client's Timeout (30 s here, and it covers the round trip and
\* the reading of the body) makes every client.Do return
NextSeq == CallerStep("g1", FewStartMaps, FewQueryParams)

SpecFair == Init /\ [][NextSeq]_vars /\ WF_vars(DoReturns("g1"))

\* StartBuild alone, over all the maps
NextStart ==
    \/ \E c \in ClientIds, m \in AllStartMaps :
          StartBuild("g1", c, "bt1", "main", "nightly", m)
    \/ DoReturns("g1")

SpecStart == InitWith({"https://tc.example"}, {"abc123"}) /\ [][NextStart]_vars

\* GetAllBuilds alone, over all the filter sets
NextQuery ==
    \/ \E c \in ClientIds, params \in AllQueryParams : GetAllBuilds("g1", c, params)
    \/ DoReturns("g1")

SpecQuery == InitWith({"https://tc.example"}, {"abc123"}) /\ [][NextQuery]_vars

(***************************************************************************)
(* Properties                                                              *)
(***************************************************************************)
Sent(p) == calls[p].sent
Returned(p) == calls[p].pc = "returned"
Is(p, op) == calls[p].pc # "idle" /\ calls[p].op = op
AuthorizationOf(p) == calls[p].req.header["Authorization"]

\* the transport answered, and the body was read
Answered(p) ==
    /\ Len(calls[p].outs) = 1
    /\ calls[p].outs[1].transportOK
    /\ calls[p].outs[1].readOK

\* C1 as stated: for every token t, the client constructed with t and the
\* client constructed with "Bearer " + t both send Authorization: "Bearer " + t
\* on every request
C1_AnyToken ==
    \A p \in Callers : Sent(p) => AuthorizationOf(p) = <<"Bearer " \o ctor.token>>

\* C1, amended: for every token t that does not itself begin with "Bearer ",
\* the client constructed with t and the client constructed with "Bearer " + t
\* both send Authorization: "Bearer " + t on every request
C1_TokenNormalized ==
    ~HasPrefix(ctor.token, "Bearer ") =>
        \A p \in Callers : Sent(p) => AuthorizationOf(p) = <<"Bearer " \o ctor.token>>

C1_Witness ==
    /\ ctor.token = "abc123"
    /\ Sent("g1") /\ calls["g1"].cl = "raw"
    /\ Sent("g2") /\ calls["g2"].cl = "prefixed"
    /\ AuthorizationOf("g1") = <<"Bearer abc123">>
    /\ AuthorizationOf("g2") = <<"Bearer abc123">>

\* C2: every request handed to the transport, by any of the six operations,
\* carries exactly the headers Authorization: Bearer {token},
\* Accept: application/json and Content-Type: application/json
C2_Headers ==
    \A p \in Callers : Sent(p) =>
        /\ calls[p].op \in {"GetBuild", "StartBuild", "CancelQueuedBuild", "StopBuild",
                            "GetArtifactTextFile", "GetAllBuilds"}
        /\ DOMAIN calls[p].req.header = {"Authorization", "Accept", "Content-Type"}
        /\ calls[p].req.header["Authorization"] =
               <<"Bearer " \o clients[calls[p].cl].token>>
        /\ calls[p].req.header["Accept"] = <<"application/json">>
        /\ calls[p].req.header["Content-Type"] = <<"application/json">>

C2_Witness ==
    /\ Is("g1", "GetAllBuilds") /\ Sent("g1")
    /\ Is("g2", "StopBuild") /\ Sent("g2")
    /\ \A p \in Callers :
         DOMAIN calls[p].req.header = {"Authorization", "Accept", "Content-Type"}

\* C3: each operation sends its request with the method and the path of the
\* endpoint table, for every build id
C3_Endpoints ==
    \A p \in Callers : Sent(p) =>
        LET r    == calls[p].req
            a    == calls[p].args
            base == clients[calls[p].cl].serverURL
        IN  /\ Is(p, "GetBuild") =>
                 /\ r.method = "GET"
                 /\ r.url = base \o "/app/rest/builds/id:" \o ToString(a.id)
            /\ Is(p, "StartBuild") =>
                 /\ r.method = "POST"
                 /\ r.url = base \o "/app/rest/buildQueue"
            /\ Is(p, "CancelQueuedBuild") =>
                 /\ r.method = "POST"
                 /\ r.url = base \o "/app/rest/buildQueue/" \o ToString(a.id)
                 /\ ~HasPrefix(r.url, base \o "/app/rest/builds")
            /\ Is(p, "StopBuild") =>
                 /\ r.method = "POST"
                 /\ r.url = base \o "/app/rest/builds/" \o ToString(a.id)
                 /\ ~HasPrefix(r.url, base \o "/app/rest/buildQueue")
            /\ Is(p, "GetArtifactTextFile") =>
                 /\ r.method = "GET"
                 /\ r.url = base \o "/app/rest/builds/id:" \o ToString(a.id)
                               \o "/artifacts/content/" \o a.path
            /\ Is(p, "GetAllBuilds") =>
                 /\ r.method = "GET"
                 /\ HasPrefix(r.url, base \o "/app/rest/builds/?locator=")

C3_Witness ==
    /\ Is("g1", "CancelQueuedBuild") /\ Sent("g1")
    /\ calls["g1"].req.url = "https://tc.example/app/rest/buildQueue/1"
    /\ Is("g2", "StopBuild") /\ Sent("g2")
    /\ calls["g2"].req.url = "https://tc.example/app/rest/builds/1"

\* C4: StartBuild returns (-1, error) whenever a stage fails and (the ID decoded
\* from the response body, nil) exactly when every stage succeeds
C4_StartBuildResult ==
    \A p \in Callers : (Is(p, "StartBuild") /\ Returned(p)) =>
        LET res   == calls[p].result
            allOK == Sent(p) /\ Answered(p) /\ calls[p].outs[1].body.valid
        IN  /\ res.err # Nil => res.id = -1
            /\ res.err = Nil <=> allOK
            /\ allOK => res.id = calls[p].outs[1].body.ID

C4_Witness ==
    /\ Is("g1", "StartBuild") /\ Returned("g1")
    /\ calls["g1"].result = [id |-> 42, err |-> Nil]
    /\ Is("g2", "StartBuild") /\ Returned("g2")
    /\ Answered("g2") /\ calls["g2"].outs[1].status = 200
    /\ calls["g2"].result = [id |-> -1, err |-> "decode"]

DoCount(st) == Cardinality({i \in DOMAIN st : st[i].stage = "do"})

\* round trips of caller p's call so far: the client.Do calls that returned, and
\* the one in progress
RoundTrips(p) == DoCount(calls[p].stages) + (IF calls[p].pc = "waiting" THEN 1 ELSE 0)

Constructed(p) ==
    \A i \in DOMAIN calls[p].stages :
        calls[p].stages[i].stage \in {"marshal", "newrequest"} => calls[p].stages[i].ok

C9_AtMostOnce(p) ==
    LET st == calls[p].stages
    IN  /\ RoundTrips(p) <= 1
        /\ calls[p].pc = "waiting" => Constructed(p)
        /\ Returned(p) =>
              /\ RoundTrips(p) = (IF Constructed(p) THEN 1 ELSE 0)
              \* a stage that failed is the last stage the call ran
              /\ \A i \in DOMAIN st : ~st[i].ok => i = Len(st)
              /\ calls[p].result.err # Nil <=> ~st[Len(st)].ok
              /\ (Len(calls[p].outs) = 1 /\ ~calls[p].outs[1].transportOK) =>
                    /\ calls[p].result.err # Nil
                    /\ st[Len(st)] = Stage("do", FALSE)

\* C9: every call of every operation performs at most one round trip and then
\* returns: exactly one when the request was constructed and none otherwise, no
\* second request after a transport error, and no stage after a failed stage
C9_OneRoundTrip ==
    /\ [](\A p \in Callers : C9_AtMostOnce(p))
    /\ \A p \in Callers : (calls[p].pc = "waiting") ~> Returned(p)

C9_Witness ==
    /\ Returned("g1") /\ Sent("g1")
    /\ Len(calls["g1"].outs) = 1 /\ ~calls["g1"].outs[1].transportOK
    /\ RoundTrips("g1") = 1
    /\ calls["g1"].result.err = "transport"

\* what caller p's call builds when it runs alone on a freshly constructed client
SoloBuilt(p) ==
    LET t  == Construct(calls[p].cl, ctor.serverURL, ctor.token)
        a  == calls[p].args
        op == calls[p].op
    IN  CASE op = "GetBuild"            -> GetBuildRequest(t, a.id)
          [] op = "StartBuild"          ->
               StartBuildRequest(t, StartBuildPayload(a.buildTypeID, a.branch, a.comment,
                   a.params, a.pOrder, a.snapshotDependencies, a.sOrder,
                   a.artifactDependencies, a.aOrder))
          [] op = "CancelQueuedBuild"   -> CancelQueuedBuildRequest(t, a.id, a.comment)
          [] op = "StopBuild"           -> StopBuildRequest(t, a.id, a.comment)
          [] op = "GetArtifactTextFile" -> GetArtifactTextFileRequest(t, a.path, a.id)
          [] op = "GetAllBuilds"        -> GetAllBuildsRequest(t, a.params)

\* C10: the configuration is what NewTeamcityClient made it, whatever calls have
\* run, and under any interleaving each call builds its request and computes
\* its result from its own arguments and that configuration, as it would alone
C10_ConfigImmutable ==
    /\ clients = [c \in ClientIds |-> Construct(c, ctor.serverURL, ctor.token)]
    /\ \A p \in Callers : calls[p].pc # "idle" =>
          LET solo == SoloBuilt(p)
          IN  /\ calls[p].req = solo.req
              /\ Sent(p) <=> solo.err = Nil
              /\ (Returned(p) /\ ~Sent(p)) =>
                    calls[p].result = EarlyResult(calls[p].op, solo.err, calls[p].args)
              /\ (Returned(p) /\ Sent(p)) =>
                    calls[p].result =
                        Finish(calls[p].op, calls[p].args, calls[p].outs[1]).result

C10_Witness ==
    /\ calls["g1"].cl = "raw" /\ Returned("g1") /\ Sent("g1")
    /\ calls["g2"].cl = "raw" /\ calls["g2"].pc = "waiting"
    /\ clients["raw"].token = "abc123"
    /\ AuthorizationOf("g2") = <<"Bearer abc123">>

\* a dependency block of the JSON payload against the mapping it comes from
BlockMatches(json, key, deps) ==
    /\ key \in DOMAIN json <=> DOMAIN deps # {}
    /\ key \in DOMAIN json =>
          LET bs == json[key].build
          IN  /\ Len(bs) = Cardinality(DOMAIN deps)
              /\ {bs[i] : i \in DOMAIN bs} =
                     {[id |-> deps[k], buildTypeId |-> k] : k \in DOMAIN deps}

\* C5: a dependency block is in the payload iff its mapping is non-empty, and
\* then holds exactly one build reference per entry of that mapping
C5_DependencyBlocks ==
    \A p \in Callers : (Is(p, "StartBuild") /\ Sent(p)) =>
        /\ calls[p].req.body.present
        /\ BlockMatches(calls[p].req.body.json, "snapshot-dependencies",
                        calls[p].args.snapshotDependencies)
        /\ BlockMatches(calls[p].req.body.json, "artifact-dependencies",
                        calls[p].args.artifactDependencies)

C5_Witness ==
    /\ Is("g1", "StartBuild") /\ Sent("g1")
    /\ calls["g1"].args.snapshotDependencies = ("BuildTypeA" :> 42)
    /\ calls["g1"].args.artifactDependencies = EmptyMap
    /\ calls["g1"].req.body.json["snapshot-dependencies"] =
          [build |-> <<[id |-> 42, buildTypeId |-> "BuildTypeA"]>>]
    /\ "artifact-dependencies" \notin DOMAIN calls["g1"].req.body.json

\* C6: properties.property holds exactly one {name, value} entry per entry of
\* params, in whatever order the mapping was ranged over
C6_Properties ==
    \A p \in Callers : (Is(p, "StartBuild") /\ Sent(p)) =>
        LET props  == calls[p].req.body.json["properties"].property
            params == calls[p].args.params
        IN  /\ Len(props) = Cardinality(DOMAIN params)
            /\ {props[i] : i \in DOMAIN props} =
                   {[name |-> k, value |-> params[k]] : k \in DOMAIN params}

C6_Witness ==
    /\ Is("g1", "StartBuild") /\ Sent("g1")
    /\ calls["g1"].args.params = ("KEY" :> "VALUE" @@ "K2" :> "VALUE")
    /\ calls["g1"].req.body.json["properties"].property =
          <<[name |-> "K2", value |-> "VALUE"], [name |-> "KEY", value |-> "VALUE"]>>
    /\ "snapshot-dependencies" \notin DOMAIN calls["g1"].req.body.json
    /\ "artifact-dependencies" \notin DOMAIN calls["g1"].req.body.json

\* one fragment of the locator, or nothing
StringFragment(open, v, close) == IF v # "" THEN open \o v \o close ELSE ""
NumberFragment(key, n, present) == IF present THEN key \o ToString(n) \o "," ELSE ""
FlagFragment(key, b) == IF b THEN key \o "true," ELSE ""

LocatorOf(p) ==
    TrimPrefix(calls[p].req.url,
               clients[calls[p].cl].serverURL \o "/app/rest/builds/?locator=")

\* C7 as stated: the locator is the concatenation, in the fixed order, of one
\* fragment per filter that is present (string non-empty, number non-zero, flag true)
C7_NonZero ==
    \A p \in Callers : (Is(p, "GetAllBuilds") /\ Sent(p)) =>
        LET q == calls[p].args.params
        IN  LocatorOf(p) =
                StringFragment("buildType:(id:", q.BuildTypeID, "),")
                \o StringFragment("branch:(name:", q.Branch, "),")
                \o StringFragment("user:", q.User, ",")
                \o NumberFragment("count:", q.Count, q.Count # 0)
                \o NumberFragment("start:", q.Start, q.Start # 0)
                \o NumberFragment("lookupLimit:", q.LookupLimit, q.LookupLimit # 0)
                \o FlagFragment("running:", q.Running)
                \o FlagFragment("cancelled:", q.Cancelled)

\* C7, amended: the same, a number being present when it is greater than zero
C7_Positive ==
    \A p \in Callers : (Is(p, "GetAllBuilds") /\ Sent(p)) =>
        LET q == calls[p].args.params
        IN  LocatorOf(p) =
                StringFragment("buildType:(id:", q.BuildTypeID, "),")
                \o StringFragment("branch:(name:", q.Branch, "),")
                \o StringFragment("user:", q.User, ",")
                \o NumberFragment("count:", q.Count, q.Count > 0)
                \o NumberFragment("start:", q.Start, q.Start > 0)
                \o NumberFragment("lookupLimit:", q.LookupLimit, q.LookupLimit > 0)
                \o FlagFragment("running:", q.Running)
                \o FlagFragment("cancelled:", q.Cancelled)

C7_Witness ==
    /\ Is("g1", "GetAllBuilds") /\ Sent("g1")
    /\ calls["g1"].args.params = QueryParams("bt1", "", "", 5, 0, 0, FALSE, FALSE)
    /\ LocatorOf("g1") = "buildType:(id:bt1),count:5,"

====
